---- MODULE Spec2Model ----
(***************************************************************************)
(* A model of datastudio/core/metadata.py: the attribute store of a        *)
(* metadata record (AbstractMetadata), the four record kinds and their     *)
(* specializations, the taxonomy container (Metadata) and the family of    *)
(* taxonomy builders (AbstractMetadataFactory and its subclasses).         *)
(*                                                                         *)
(* Conventions.                                                            *)
(*  - A Python str that the program transforms (lower(), `in`, +) is a     *)
(*    sequence of one-character strings, so that lower-casing, substring   *)
(*    search and concatenation are computed and not assumed.  Dictionary   *)
(*    keys of the attribute store, class names of exceptions and operation *)
(*    names are plain TLA+ strings: the program only compares them.        *)
(*  - An OrderedDict / dict is a sequence of entries [k |-> key, v |-> v]  *)
(*    in insertion order, without repeated keys.                           *)
(*  - `call` records the last call made: its operation, arguments, the     *)
(*    exception it raised ("ok" when it returned) and what it returned.    *)
(***************************************************************************)
EXTENDS Integers, Sequences, FiniteSets, TLC

VARIABLES
    metadata,    \* AbstractMetadata._metadata of the record under study
    attrs,       \* the record's other instance attributes, by name
    entity,      \* the entity the record describes: class name and members
    now,         \* ambient wall clock (a tick counter)
    built,       \* the record's store as it was right after construction
    taxonomy,    \* Metadata._metadata of the taxonomy under study
    kindOrder,   \* the kinds passed to Metadata.add, in order of first addition
    nextId,      \* identity of the next object allocated
    factory,     \* the builder: class, attributes, reference to its taxonomy
    heap,        \* the Metadata objects allocated by builders, by identity
    handed,      \* what each read of `metadata` handed out, oldest first
    created,     \* the create steps called since the last read, in order
    call         \* the last call: operation, arguments, outcome, result

vars == <<metadata, attrs, entity, now, built, taxonomy, kindOrder, nextId,
          factory, heap, handed, created, call>>

-----------------------------------------------------------------------------
(* Python values *)

\* None where a str is expected: no str is a sequence holding this element.
None == <<"<None>">>

\* None where an attribute-store key is expected.
NoKey == "<None>"

\* bool(key) of an attribute-store key, as `if key:` evaluates it
TruthyKey(key) == key # NoKey /\ key # ""

\* bool(s) of a str or None, as `if event:` evaluates it
TruthyStr(s) == s # None /\ s # <<>>

UpperCase == <<"A","B","C","D","E","F","G","H","I","J","K","L","M",
               "N","O","P","Q","R","S","T","U","V","W","X","Y","Z">>
LowerCase == <<"a","b","c","d","e","f","g","h","i","j","k","l","m",
               "n","o","p","q","r","s","t","u","v","w","x","y","z">>

\* the lower-case letter of each upper-case letter
LowerOf ==
    [c \in {UpperCase[i] : i \in DOMAIN UpperCase} |->
        LowerCase[CHOOSE i \in DOMAIN UpperCase : UpperCase[i] = c]]

LowerChar(c) == IF c \in DOMAIN LowerOf THEN LowerOf[c] ELSE c

\* str.lower()
Lower(s) == [i \in DOMAIN s |-> LowerChar(s[i])]

\* `sub in s` for two str
Contains(s, sub) ==
    \E i \in 0..(Len(s) - Len(sub)) :
        \A j \in 1..Len(sub) : s[i + j] = sub[j]

-----------------------------------------------------------------------------
(* dict / OrderedDict *)

Has(md, key) == \E i \in DOMAIN md : md[i].k = key

IndexOf(md, key) == CHOOSE i \in DOMAIN md : md[i].k = key

Lookup(md, key) == md[IndexOf(md, key)].v

KeysOf(md) == {md[i].k : i \in DOMAIN md}

\* md[key] = value : in place when the key exists, else appended at the end
SetItem(md, key, value) ==
    IF Has(md, key)
    THEN [md EXCEPT ![IndexOf(md, key)] = [k |-> key, v |-> value]]
    ELSE Append(md, [k |-> key, v |-> value])

\* del md[key], for a key that exists
DelItem(md, key) ==
    [i \in 1..(Len(md) - 1) |-> IF i < IndexOf(md, key) THEN md[i] ELSE md[i + 1]]

-----------------------------------------------------------------------------
(* The record kinds: the values of metadata_type *)

Administrative == <<"A","d","m","i","n","i","s","t","r","a","t","i","v","e">>
Descriptive == <<"D","e","s","c","r","i","p","t","i","v","e">>
Technical == <<"T","e","c","h","n","i","c","a","l">>
Process == <<"P","r","o","c","e","s","s">>

Kinds == {Administrative, Descriptive, Technical, Process}

-----------------------------------------------------------------------------
(* AbstractMetadata: the attribute store.  Each operator gives the         *)
(* exception raised ("ok" if none), the value returned and the store       *)
(* after the call.                                                         *)

Result(outcome, ret, md) == [outcome |-> outcome, ret |-> ret, md |-> md]

\* __init__ binds self._entity (a reference to the entity) and
\* self._metadata, and nothing else: `name` and kwargs are dropped.  The
\* store self._metadata is the variable `metadata`.
AbstractMetadata_attrs == ("_entity" :> "<entity>")

\* `self.metadata_type = ...` in a subclass's __init__
WithType(at, metadata_type) == at @@ ("metadata_type" :> metadata_type)

AbstractMetadata_init == <<>>

AbstractMetadata_get(md, key) ==
    IF TruthyKey(key)
    THEN IF Has(md, key)
         THEN Result("ok", Lookup(md, key), md)
         ELSE Result("KeyError", None, md)
    ELSE Result("ok", md, md)

AbstractMetadata_add_overwrite(md, key, value) ==
    Result("ok", None, SetItem(md, key, value))

AbstractMetadata_add(md, key, value) ==
    IF ~Has(md, key)
    THEN Result("ok", None, SetItem(md, key, value))
    ELSE Result("ValueError", None, md)

AbstractMetadata_change_upsert(md, key, value) ==
    Result("ok", None, SetItem(md, key, value))

AbstractMetadata_change(md, key, value) ==
    IF ~Has(md, key)
    THEN Result("KeyError", None, md)
    ELSE Result("ok", None, SetItem(md, key, value))

\* the KeyError of `del` is caught and reported with print()
AbstractMetadata_remove(md, key) ==
    IF Has(md, key)
    THEN Result("ok", None, DelItem(md, key))
    ELSE Result("ok", None, md)

-----------------------------------------------------------------------------
(* Entities and class names *)

DataSet == <<"D","a","t","a","S","e","t">>
DataCollection == <<"D","a","t","a","C","o","l","l","e","c","t","i","o","n">>

NoEntity == [cls |-> <<>>, members |-> <<>>]

\* entity.__class__.__name__
ClassName(e) == e.cls

-----------------------------------------------------------------------------
(* MetadataDesc *)

Version == <<"0",".","1",".","0">>

MetadataDesc_init(e) ==
    LET m0 == AbstractMetadata_init
        m1 == SetItem(m0, "type", <<>>)
        m2 == SetItem(m1, "category", <<>>)
        m3 == SetItem(m2, "title", <<>>)
        m4 == SetItem(m3, "description_short", <<>>)
        m5 == SetItem(m4, "description", <<>>)
        m6 == SetItem(m5, "class", ClassName(e))
    IN  SetItem(m6, "version", Version)

-----------------------------------------------------------------------------
(* The attribute store under add / get / change / remove *)

Keys == {"", "title", "tag"}
Values == {<<"x">>, <<"y">>}

NoCall == [op |-> "none"]

StoreCall(op, key, value, r) ==
    [op |-> op, key |-> key, value |-> value, outcome |-> r.outcome,
     ret |-> r.ret, pre |-> metadata]

RecordIdle ==
    /\ metadata = <<>> /\ attrs = <<>> /\ entity = NoEntity
    /\ now = 0 /\ built = <<>>

TaxonomyIdle == taxonomy = <<>> /\ kindOrder = <<>>

BuilderIdle ==
    /\ factory = [cls |-> "none"] /\ heap = <<>> /\ handed = <<>>
    /\ created = <<>>

StoreFrame ==
    UNCHANGED <<attrs, entity, now, built, taxonomy, kindOrder, nextId,
                factory, heap, handed, created>>

\* a record of the base class, or a MetadataDesc, right after construction
InitStore ==
    /\ \/ /\ entity = NoEntity
          /\ attrs = AbstractMetadata_attrs
          /\ metadata = AbstractMetadata_init
       \/ /\ entity = [cls |-> DataSet, members |-> <<>>]
          /\ attrs = WithType(AbstractMetadata_attrs, Descriptive)
          /\ metadata = MetadataDesc_init(entity)
    /\ now = 0 /\ built = metadata /\ nextId = 1
    /\ TaxonomyIdle /\ BuilderIdle
    /\ call = NoCall

Add ==
    \E key \in Keys, value \in Values :
        LET r == AbstractMetadata_add(metadata, key, value) IN
        /\ metadata' = r.md
        /\ call' = StoreCall("add", key, value, r)
        /\ StoreFrame

Get ==
    \E key \in Keys \cup {NoKey} :
        LET r == AbstractMetadata_get(metadata, key) IN
        /\ metadata' = r.md
        /\ call' = StoreCall("get", key, None, r)
        /\ StoreFrame

Change ==
    \E key \in Keys, value \in Values :
        LET r == AbstractMetadata_change(metadata, key, value) IN
        /\ metadata' = r.md
        /\ call' = StoreCall("change", key, value, r)
        /\ StoreFrame

Remove ==
    \E key \in Keys :
        LET r == AbstractMetadata_remove(metadata, key) IN
        /\ metadata' = r.md
        /\ call' = StoreCall("remove", key, None, r)
        /\ StoreFrame

NextStore == Add \/ Get \/ Change \/ Remove

SpecStore == InitStore /\ [][NextStore]_vars

\* C1: for a non-empty key k that is absent, add(k, v) returns and a
\* following get(k) returns v; add(k, w) on a key that is present raises
\* the duplicate-key error (ValueError) and get(k) still returns the value
\* the key had.
C1_AddThenGet ==
    (call.op = "add" /\ call.key # "") =>
        IF ~Has(call.pre, call.key)
        THEN /\ call.outcome = "ok"
             /\ AbstractMetadata_get(metadata, call.key).outcome = "ok"
             /\ AbstractMetadata_get(metadata, call.key).ret = call.value
        ELSE /\ call.outcome = "ValueError"
             /\ AbstractMetadata_get(metadata, call.key).outcome = "ok"
             /\ AbstractMetadata_get(metadata, call.key).ret
                    = Lookup(call.pre, call.key)

\* a second add(k, w), w different from the stored v, was refused
C1_Witness ==
    /\ call.op = "add" /\ call.key # ""
    /\ call.outcome = "ValueError"
    /\ Has(metadata, call.key)
    /\ Lookup(metadata, call.key) # call.value
    /\ Lookup(metadata, call.key) \in Values

\* C2: for a non-empty key k that is not present, get(k) and change(k, v)
\* raise the missing-key error (KeyError), remove(k) returns, and in all
\* three cases the store (keys, values, order) is as before the call.
C2_MissingKey ==
    (/\ call.op \in {"get", "change", "remove"}
     /\ call.key # "" /\ call.key # NoKey
     /\ ~Has(call.pre, call.key)) =>
        /\ call.outcome = (IF call.op = "remove" THEN "ok" ELSE "KeyError")
        /\ metadata = call.pre

\* remove of a missing key returned, on a store that holds other keys
C2_Witness ==
    /\ call.op = "remove"
    /\ call.key # "" /\ ~Has(call.pre, call.key)
    /\ call.outcome = "ok"
    /\ Len(metadata) > 0

-----------------------------------------------------------------------------
(* Metadata: the taxonomy container *)

Min(S) == CHOOSE x \in S : \A y \in S : x <= y
Max(S) == CHOOSE x \in S : \A y \in S : x >= y

\* bool(record): the record classes define neither __bool__ nor __len__
Bool(record) == TRUE

Metadata_init == <<>>

Metadata_add_keep_first(tax, record) ==
    IF Has(tax, Lower(record.metadata_type))
    THEN tax
    ELSE SetItem(tax, Lower(record.metadata_type), record)

Metadata_add(tax, record) ==
    SetItem(tax, Lower(record.metadata_type), record)

\* the generator expression handed to next(): the entries whose key matches
Metadata_matches_exact_case(tax, metadata_type) ==
    {i \in DOMAIN tax : Contains(Lower(tax[i].k), metadata_type)}

Metadata_matches(tax, metadata_type) ==
    {i \in DOMAIN tax : Contains(Lower(tax[i].k), Lower(metadata_type))}

\* next() without a default raises StopIteration on an exhausted generator,
\* before the `if metadata:` test is reached
Metadata_get(tax, metadata_type) ==
    IF metadata_type = None
    THEN Result("ok", tax, tax)
    ELSE LET hits == Metadata_matches(tax, metadata_type) IN
         IF hits = {}
         THEN Result("StopIteration", None, tax)
         ELSE IF Bool(tax[Min(hits)].v)
              THEN Result("ok", tax[Min(hits)].v, tax)
              ELSE Result("KeyError", None, tax)

-----------------------------------------------------------------------------
(* The taxonomy under add / get *)

MaxRecords == 5

Queries ==
    {None, <<>>, <<"a","d","m","i","n">>, <<"A","D","M","I","N">>,
     Administrative, <<"t","e","c","h">>, <<"i","v","e">>, <<"c">>,
     <<"P","r","o","c">>,
     <<"n","o","n","e","x","i","s","t","e","n","t">>}

TaxonomyFrame ==
    UNCHANGED <<metadata, attrs, entity, now, built, factory, heap, handed,
                created>>

InitTaxonomy ==
    /\ RecordIdle /\ BuilderIdle
    /\ taxonomy = Metadata_init /\ kindOrder = <<>> /\ nextId = 1
    /\ call = NoCall

TaxonomyAdd ==
    \E kind \in Kinds :
        LET record == [id |-> nextId, metadata_type |-> kind] IN
        /\ nextId <= MaxRecords
        /\ taxonomy' = Metadata_add(taxonomy, record)
        /\ kindOrder' = IF \E i \in DOMAIN kindOrder : kindOrder[i] = kind
                        THEN kindOrder ELSE Append(kindOrder, kind)
        /\ nextId' = nextId + 1
        /\ call' = [op |-> "add", arg |-> record, outcome |-> "ok",
                    ret |-> None, pre |-> taxonomy]
        /\ TaxonomyFrame

TaxonomyGet ==
    \E q \in Queries :
        LET r == Metadata_get(taxonomy, q) IN
        /\ taxonomy' = r.md
        /\ call' = [op |-> "get", arg |-> q, outcome |-> r.outcome,
                    ret |-> r.ret, pre |-> taxonomy]
        /\ UNCHANGED <<kindOrder, nextId>>
        /\ TaxonomyFrame

NextTaxonomy == TaxonomyAdd \/ TaxonomyGet

SpecTaxonomy == InitTaxonomy /\ [][NextTaxonomy]_vars

\* the positions, in order of first addition, of the kinds whose lower-cased
\* name contains s lower-cased
MatchingKinds(s) ==
    {i \in DOMAIN kindOrder : Contains(Lower(kindOrder[i]), Lower(s))}

\* C3: get(s) with a str s returns the first record, in order of kind
\* addition, whose lower-cased kind name contains s case-insensitively; on a
\* taxonomy whose first-added record is Administrative, get("admin") and
\* get("Administrative") return the same record.
C3_FirstMatch ==
    /\ (call.op = "get" /\ call.arg # None /\ MatchingKinds(call.arg) # {}) =>
          /\ call.outcome = "ok"
          /\ call.ret.metadata_type = kindOrder[Min(MatchingKinds(call.arg))]
          /\ call.ret = Lookup(taxonomy, Lower(call.ret.metadata_type))
    /\ (kindOrder # <<>> /\ kindOrder[1] = Administrative) =>
          /\ Metadata_get(taxonomy, <<"a","d","m","i","n">>).outcome = "ok"
          /\ Metadata_get(taxonomy, Administrative).outcome = "ok"
          /\ Metadata_get(taxonomy, <<"a","d","m","i","n">>).ret
                = Metadata_get(taxonomy, Administrative).ret
          /\ Metadata_get(taxonomy, Administrative).ret.metadata_type
                = Administrative

\* get("ADMIN") found the Administrative record although a Technical record
\* was added too, and get("c") found the first-added of several matches
C3_Witness ==
    /\ call.op = "get" /\ call.arg = <<"c">>
    /\ call.outcome = "ok"
    /\ Len(taxonomy) >= 3
    /\ Cardinality(MatchingKinds(call.arg)) >= 2
    /\ call.ret.metadata_type # Administrative
    /\ call.ret.id > 1

\* C4: get(s) with a str s contained in no stored kind name raises the
\* lookup's own 'No metadata type matching' KeyError and leaves the taxonomy
\* unchanged.
C4_NotFound ==
    (call.op = "get" /\ call.arg # None /\ MatchingKinds(call.arg) = {}) =>
        /\ call.outcome = "KeyError"
        /\ taxonomy = call.pre

-----------------------------------------------------------------------------
(* The builders: AbstractMetadataFactory and its five subclasses *)

FactoryClasses ==
    {"MetadataEntityFactory", "MetadataDataCollectionFactory",
     "MetadataFileFactory", "MetadataRDBMSFactory", "MetadataRemoteFactory"}

Steps == <<"create_admin", "create_desc", "create_tech", "create_process">>

\* the exception the constructor raises for a keyword bundle with these keys
\* ("ok" if none).  MetadataRDBMSFactory hands kwargs to the base __init__ as
\* a fourth positional argument; MetadataRemoteFactory.__init__ takes no
\* keyword at all.
Factory_init_outcome(cls, kwargs) ==
    CASE cls = "MetadataRDBMSFactory" -> "TypeError"
      [] cls = "MetadataRemoteFactory" ->
            IF kwargs = {} THEN "ok" ELSE "TypeError"
      [] OTHER -> "ok"

\* the instance attributes __init__ binds.  MetadataRemoteFactory.__init__
\* does not call the base __init__ and binds no _addl_params.
Factory_attrs(cls) ==
    IF cls = "MetadataRemoteFactory"
    THEN {"_entity", "_name", "_metadata"}
    ELSE {"_entity", "_name", "_addl_params", "_metadata"}

\* _reset: a fresh Metadata object becomes the builder's taxonomy
Factory_reset(h) == [heap |-> Append(h, Metadata_init), md |-> Len(h) + 1]

Factory_metadata_noreset(f, h) == [ret |-> f.md, heap |-> h, md |-> f.md]

\* the `metadata` property: hand back the taxonomy, then _reset
Factory_metadata(f, h) ==
    [ret |-> f.md, heap |-> Factory_reset(h).heap, md |-> Factory_reset(h).md]

\* the record class each create step of each builder instantiates
RecordClass(cls, step) ==
    CASE step = "create_admin" ->
            (CASE cls = "MetadataFileFactory" -> "MetadataAdminFile"
               [] cls = "MetadataRemoteFactory" -> "MetadataAdminURL"
               [] OTHER -> "MetadataAdmin")
      [] step = "create_desc" ->
            (IF cls = "MetadataDataCollectionFactory"
             THEN "MetadataDescDataCollection" ELSE "MetadataDesc")
      [] step = "create_tech" ->
            (CASE cls = "MetadataFileFactory" -> "MetadataTechFile"
               [] cls = "MetadataRDBMSFactory" -> "MetadataTechRDBMS"
               [] OTHER -> "MetadataTech")
      [] step = "create_process" -> "MetadataProcess"

\* self.metadata_type as the record class's __init__ sets it
MetadataType(rcls) ==
    CASE rcls \in {"MetadataAdmin", "MetadataAdminFile", "MetadataAdminURL"}
            -> Administrative
      [] rcls \in {"MetadataDesc", "MetadataDescDataCollection"} -> Descriptive
      [] rcls \in {"MetadataTech", "MetadataTechFile", "MetadataTechRDBMS"}
            -> Technical
      [] rcls = "MetadataProcess" -> Process

\* the exception the record's constructor raises ("ok" if none): the file
\* variants stat kwargs['path'] (getctime, getsize) when a path is given
Record_init_outcome(rcls, kwargs, file_exists) ==
    IF /\ rcls \in {"MetadataAdminFile", "MetadataTechFile"}
       /\ "path" \in kwargs
       /\ ~file_exists
    THEN "FileNotFoundError"
    ELSE "ok"

\* one create step: the outcome, the record built (if any) and the heap after
Factory_create(f, h, step, id, file_exists) ==
    IF "_addl_params" \notin f.attrs
    THEN [outcome |-> "AttributeError", heap |-> h]
    ELSE LET rcls == RecordClass(f.cls, step)
             out == Record_init_outcome(rcls, f.addl_params, file_exists)
             record == [id |-> id, cls |-> rcls,
                        metadata_type |-> MetadataType(rcls)]
         IN  IF out # "ok"
             THEN [outcome |-> out, heap |-> h]
             ELSE [outcome |-> "ok", record |-> record,
                   heap |-> [h EXCEPT ![f.md] = Metadata_add(@, record)]]

-----------------------------------------------------------------------------
(* A builder under construction, create steps and reads of `metadata` *)

MaxCreates == 4
MaxReads == 2

\* the keyword bundles tried on each builder class: none, the keys the
\* variant recognizes, and keys it does not
Bundles(cls) ==
    CASE cls = "MetadataFileFactory" -> {{}, {"path"}, {"url"}}
      [] cls = "MetadataRDBMSFactory" -> {{}, {"database", "port"}}
      [] cls = "MetadataRemoteFactory" -> {{}, {"url"}}
      [] OTHER -> {{}, {"path"}}

BuilderFrame ==
    UNCHANGED <<metadata, attrs, entity, now, built, taxonomy, kindOrder>>

InitBuilder ==
    /\ RecordIdle /\ TaxonomyIdle /\ BuilderIdle
    /\ nextId = 1
    /\ call = NoCall

Construct ==
    \E cls \in FactoryClasses : \E kwargs \in Bundles(cls) :
        LET out == Factory_init_outcome(cls, kwargs) IN
        /\ factory.cls = "none"
        /\ call.op = "none"
        /\ IF out = "ok"
           THEN /\ factory' = [cls |-> cls, attrs |-> Factory_attrs(cls),
                               addl_params |-> kwargs,
                               md |-> Factory_reset(heap).md]
                /\ heap' = Factory_reset(heap).heap
           ELSE UNCHANGED <<factory, heap>>
        /\ call' = [op |-> "construct", cls |-> cls, kwargs |-> kwargs,
                    outcome |-> out]
        /\ UNCHANGED <<handed, created, nextId>>
        /\ BuilderFrame

Create ==
    \E i \in DOMAIN Steps, file_exists \in BOOLEAN :
        LET r == Factory_create(factory, heap, Steps[i], nextId, file_exists) IN
        /\ factory.cls # "none"
        /\ nextId <= MaxCreates
        /\ heap' = r.heap
        /\ created' = Append(created,
                IF r.outcome = "ok"
                THEN [step |-> Steps[i], outcome |-> "ok", id |-> r.record.id]
                ELSE [step |-> Steps[i], outcome |-> r.outcome, id |-> 0])
        /\ nextId' = nextId + 1
        /\ call' = [op |-> Steps[i], outcome |-> r.outcome]
        /\ UNCHANGED <<factory, handed>>
        /\ BuilderFrame

ReadMetadata ==
    LET r == Factory_metadata(factory, heap) IN
    /\ factory.cls # "none"
    /\ Len(handed) < MaxReads
    /\ heap' = r.heap
    /\ factory' = [factory EXCEPT !.md = r.md]
    /\ handed' = Append(handed, [id |-> r.ret, snapshot |-> heap[r.ret]])
    /\ created' = <<>>
    /\ call' = [op |-> "metadata", outcome |-> "ok", ret |-> r.ret,
                created |-> created]
    /\ UNCHANGED nextId
    /\ BuilderFrame

NextBuilder == Construct \/ Create \/ ReadMetadata

SpecBuilder == InitBuilder /\ [][NextBuilder]_vars

\* the records of a taxonomy, as a set
RecordsOf(tax) == {tax[i].v : i \in DOMAIN tax}

\* the identities of the records the steps in `cs` created
CreatedIds(cs) == {cs[i].id : i \in {j \in DOMAIN cs : cs[j].outcome = "ok"}}

\* of the records the steps in `cs` created, the last one of each step
LatestIds(cs) ==
    {cs[i].id : i \in {j \in DOMAIN cs :
        /\ cs[j].outcome = "ok"
        /\ \A l \in DOMAIN cs :
              (l > j /\ cs[l].step = cs[j].step) => cs[l].outcome # "ok"}}

\* C5 as stated: a read of `metadata` returns the taxonomy holding exactly
\* the records created since the previous read (or since construction).
C5_ExactlyCreated ==
    call.op = "metadata" =>
        {r.id : r \in RecordsOf(heap[call.ret])} = CreatedIds(call.created)

\* C5, amended: a read of `metadata` returns the taxonomy holding, for each
\* kind created since the previous read (or since construction), the record
\* of that kind created last, and nothing else; the read re-arms the builder
\* with an empty taxonomy (what an immediately following read returns), and
\* no create step or read ever alters a taxonomy already handed out.
C5_ReadResets ==
    /\ call.op = "metadata" =>
          /\ call.outcome = "ok"
          /\ {r.id : r \in RecordsOf(heap[call.ret])} = LatestIds(call.created)
          /\ factory.md # call.ret
          /\ heap[factory.md] = <<>>
          /\ Factory_metadata(factory, heap).ret = factory.md
    /\ \A i \in DOMAIN handed : heap[handed[i].id] = handed[i].snapshot
    /\ \A i, j \in DOMAIN handed : i # j => handed[i].id # handed[j].id
    /\ \A i \in DOMAIN handed : factory.cls # "none" => handed[i].id # factory.md

\* a non-empty taxonomy was handed out, a second read handed out an empty
\* one, and a record has been created since
C5_Witness ==
    /\ Len(handed) = 2
    /\ Len(handed[1].snapshot) >= 2
    /\ handed[2].snapshot = <<>>
    /\ factory.cls # "none"
    /\ Len(heap[factory.md]) >= 1

\* the keyword bundle each builder variant recognizes
Recognized(cls) ==
    CASE cls = "MetadataFileFactory" -> {"path"}
      [] cls = "MetadataRDBMSFactory" -> {"database", "port"}
      [] cls = "MetadataRemoteFactory" -> {"url"}
      [] OTHER -> {}

\* the record specializations the builder table assigns to each variant,
\* for admin, desc, tech, process
Assigned(cls) ==
    CASE cls = "MetadataEntityFactory" ->
            <<"MetadataAdmin", "MetadataDesc", "MetadataTech", "MetadataProcess">>
      [] cls = "MetadataDataCollectionFactory" ->
            <<"MetadataAdmin", "MetadataDescDataCollection", "MetadataTech",
              "MetadataProcess">>
      [] cls = "MetadataFileFactory" ->
            <<"MetadataAdminFile", "MetadataDesc", "MetadataTechFile",
              "MetadataProcess">>
      [] cls = "MetadataRDBMSFactory" ->
            <<"MetadataAdmin", "MetadataDesc", "MetadataTechRDBMS",
              "MetadataProcess">>
      [] cls = "MetadataRemoteFactory" ->
            <<"MetadataAdminURL", "MetadataDesc", "MetadataTech",
              "MetadataProcess">>

\* C6: for each of the five builder variants, construction with the keyword
\* bundle the variant recognizes, then create_admin, create_desc,
\* create_tech, create_process and a read of `metadata` complete without
\* error and yield four records keyed administrative, descriptive,
\* technical, process in that order, each of the specialization the builder
\* table assigns.  (A create step that fails because no file exists at the
\* path it stats is left out of the statement.)
C6_BuildsFour ==
    /\ (call.op = "construct" /\ call.kwargs = Recognized(call.cls)) =>
          call.outcome = "ok"
    /\ call.op \in {Steps[i] : i \in DOMAIN Steps} =>
          call.outcome \in {"ok", "FileNotFoundError"}
    /\ (/\ call.op = "metadata"
        /\ [i \in DOMAIN call.created |-> call.created[i].step] = Steps
        /\ \A i \in DOMAIN call.created :
              call.created[i].outcome # "FileNotFoundError") =>
          /\ call.outcome = "ok"
          /\ [i \in DOMAIN heap[call.ret] |-> heap[call.ret][i].k]
                = <<Lower(Administrative), Lower(Descriptive),
                    Lower(Technical), Lower(Process)>>
          /\ [i \in DOMAIN heap[call.ret] |-> heap[call.ret][i].v.cls]
                = Assigned(factory.cls)

-----------------------------------------------------------------------------
(* Ambient facts: login name, wall clock, uuid *)

Digits == <<"0","1","2","3","4","5","6","7","8","9">>

\* str(n) of a natural number
RECURSIVE Str(_)
Str(n) == IF n < 10 THEN <<Digits[n + 1]>>
          ELSE Str(n \div 10) \o <<Digits[(n % 10) + 1]>>

\* time.strftime("%c") at tick t
Strftime(t) == <<"T">> \o Str(t)

\* year-month-day_hour-minute-second of datetime.now() at tick t
DateString(t) == Str(t)

\* what os.getlogin() may return
Users == {<<"J","o">>, <<"a","l">>}

\* what str(uuid.uuid4()) may return
Uuids == {<<"u","1">>, <<"u","2">>}

\* the names an entity may be given
Names == {<<"S","F">>, <<"n","y","c">>}

-----------------------------------------------------------------------------
(* MetadataAdmin *)

\* AbstractMetadata.update: self._metadata['updates'] += 1
AbstractMetadata_update(md) ==
    IF Has(md, "updates")
    THEN Result("ok", None, SetItem(md, "updates", Lookup(md, "updates") + 1))
    ELSE Result("KeyError", None, md)

MetadataAdmin_init(e, name, user, t, uuid) ==
    LET classname == ClassName(e)
        m0 == AbstractMetadata_init
        m1 == SetItem(m0, "id", uuid)
        m2 == SetItem(m1, "name", name)
        m3 == SetItem(m2, "creator", user)
        m4 == SetItem(m3, "created", Strftime(t))
        m5 == SetItem(m4, "modifier", user)
        m6 == SetItem(m5, "modified", Strftime(t))
        m7 == SetItem(m6, "updates", 0)
        m8 == SetItem(m7, "classname", classname)
    IN  SetItem(m8, "objectname",
            Lower(user) \o <<"_">> \o DateString(t) \o <<"_">> \o <<"_">>
                \o Lower(classname) \o <<"_">> \o Lower(name))

MetadataAdmin_update_recreated(md, user, t) ==
    LET b == AbstractMetadata_update(md) IN
    IF b.outcome # "ok" THEN b
    ELSE LET m1 == SetItem(b.md, "modifier", user)
             m2 == SetItem(m1, "modified", Strftime(t))
             m3 == SetItem(m2, "created", Strftime(t))
         IN  Result("ok", None, SetItem(m3, "updates", Lookup(m3, "updates") + 1))

\* super().update(), then modifier, modified, and updates once more
MetadataAdmin_update(md, user, t) ==
    LET b == AbstractMetadata_update(md) IN
    IF b.outcome # "ok" THEN b
    ELSE LET m1 == SetItem(b.md, "modifier", user)
             m2 == SetItem(m1, "modified", Strftime(t))
         IN  Result("ok", None, SetItem(m2, "updates", Lookup(m2, "updates") + 1))

-----------------------------------------------------------------------------
(* An Administrative record under update *)

MaxClock == 3
MaxUpdates == 6

RecordFrame ==
    UNCHANGED <<taxonomy, kindOrder, nextId, factory, heap, handed, created>>

InitAdmin ==
    /\ entity \in {[cls |-> DataSet, members |-> <<>>],
                   [cls |-> DataCollection, members |-> <<>>]}
    /\ attrs = WithType(AbstractMetadata_attrs, Administrative)
    /\ now = 1
    /\ \E name \in Names, user \in Users, uuid \in Uuids :
          metadata = MetadataAdmin_init(entity, name, user, now, uuid)
    /\ built = metadata
    /\ nextId = 1
    /\ TaxonomyIdle /\ BuilderIdle
    /\ call = NoCall

\* the wall clock advances
Tick ==
    /\ now < MaxClock
    /\ now' = now + 1
    /\ UNCHANGED <<metadata, attrs, entity, built, call>>
    /\ RecordFrame

AdminUpdate ==
    \E user \in Users :
        LET r == MetadataAdmin_update(metadata, user, now) IN
        /\ Lookup(metadata, "updates") < MaxUpdates
        /\ metadata' = r.md
        /\ call' = [op |-> "update", outcome |-> r.outcome,
                    pre |-> Lookup(metadata, "updates")]
        /\ UNCHANGED <<attrs, entity, now, built>>
        /\ RecordFrame

NextAdmin == Tick \/ AdminUpdate

SpecAdmin == InitAdmin /\ [][NextAdmin]_vars

\* the fields of an Administrative record that update leaves alone
AdminStatic == {"id", "name", "creator", "created", "classname", "objectname"}

\* C7: on an Administrative record every update changes only modifier,
\* modified and updates: id, name, creator, created, classname and
\* objectname hold, after any number of updates, the values they held right
\* after construction, and no key is added, removed or moved.
C7_UpdateFrame ==
    /\ call.op = "update" => call.outcome = "ok"
    /\ [i \in DOMAIN metadata |-> metadata[i].k]
          = [i \in DOMAIN built |-> built[i].k]
    /\ \A key \in AdminStatic :
          /\ Has(metadata, key)
          /\ Lookup(metadata, key) = Lookup(built, key)

\* after two updates at a later time by another login, the dynamic fields
\* differ from the static ones
C7_Witness ==
    /\ call.op = "update"
    /\ Lookup(metadata, "updates") > Lookup(built, "updates") + 2
    /\ Lookup(metadata, "modifier") # Lookup(metadata, "creator")
    /\ Lookup(metadata, "modified") # Lookup(metadata, "created")

-----------------------------------------------------------------------------
(* MetadataDescDataCollection *)

MetadataDescDataCollection_reset(md) ==
    LET m1 == SetItem(md, "n_members", 0)
        m2 == SetItem(m1, "n_members_datacollection", 0)
    IN  SetItem(m2, "n_members_dataset", 0)

MetadataDescDataCollection_init(e) ==
    MetadataDescDataCollection_reset(MetadataDesc_init(e))

Increment(md, key) == SetItem(md, key, Lookup(md, key) + 1)

\* the loop over self._entity.get().items()
RECURSIVE CountMembers(_, _)
CountMembers(md, members) ==
    IF members = <<>> THEN md
    ELSE LET m1 == Increment(md, "n_members")
             m2 == IF ClassName(Head(members).v) = DataCollection
                   THEN Increment(m1, "n_members_datacollection")
                   ELSE Increment(m1, "n_members_dataset")
         IN  CountMembers(m2, Tail(members))

MetadataDescDataCollection_update_noreset(md, e) ==
    Result("ok", None, CountMembers(md, e.members))

MetadataDescDataCollection_update(md, e) ==
    Result("ok", None,
           CountMembers(MetadataDescDataCollection_reset(md), e.members))

-----------------------------------------------------------------------------
(* A collection's Descriptive record while the collection changes *)

MaxMembers == 3

DataSourceFile == <<"D","a","t","a","S","o","u","r","c","e","F","i","l","e">>

MemberClasses == {DataCollection, DataSet, DataSourceFile}

InitDesc ==
    /\ entity = [cls |-> DataCollection, members |-> <<>>]
    /\ attrs = WithType(AbstractMetadata_attrs, Descriptive)
    /\ metadata = MetadataDescDataCollection_init(entity)
    /\ built = metadata
    /\ now = 0 /\ nextId = 1
    /\ TaxonomyIdle /\ BuilderIdle
    /\ call = NoCall

\* the collection gains a member under a name it does not hold
AddMember ==
    \E name \in 1..MaxMembers, cls \in MemberClasses :
        /\ ~Has(entity.members, name)
        /\ entity' = [entity EXCEPT !.members =
                         SetItem(@, name, [cls |-> cls, members |-> <<>>])]
        /\ call' = [op |-> "add_member", outcome |-> "ok"]
        /\ UNCHANGED <<metadata, attrs, now, built>>
        /\ RecordFrame

\* the collection loses a member
RemoveMember ==
    \E name \in 1..MaxMembers :
        /\ Has(entity.members, name)
        /\ entity' = [entity EXCEPT !.members = DelItem(@, name)]
        /\ call' = [op |-> "remove_member", outcome |-> "ok"]
        /\ UNCHANGED <<metadata, attrs, now, built>>
        /\ RecordFrame

DescUpdate ==
    LET r == MetadataDescDataCollection_update(metadata, entity) IN
    /\ metadata' = r.md
    /\ call' = [op |-> "update", outcome |-> r.outcome, pre |-> metadata]
    /\ UNCHANGED <<attrs, entity, now, built>>
    /\ RecordFrame

NextDesc == AddMember \/ RemoveMember \/ DescUpdate

SpecDesc == InitDesc /\ [][NextDesc]_vars

\* the members of the collection that are (are not) collections themselves
CollectionMembers ==
    {i \in DOMAIN entity.members : entity.members[i].v.cls = DataCollection}
OtherMembers ==
    {i \in DOMAIN entity.members : entity.members[i].v.cls # DataCollection}

\* C8: whatever members were added or removed and whatever updates came
\* before, update leaves n_members equal to the number of members,
\* n_members_datacollection to the number of members that are collections
\* and n_members_dataset to the number of the others, so that
\* n_members = n_members_datacollection + n_members_dataset.
C8_CountsRecomputed ==
    call.op = "update" =>
        /\ call.outcome = "ok"
        /\ Lookup(metadata, "n_members") = Len(entity.members)
        /\ Lookup(metadata, "n_members_datacollection")
              = Cardinality(CollectionMembers)
        /\ Lookup(metadata, "n_members_dataset") = Cardinality(OtherMembers)
        /\ Lookup(metadata, "n_members")
              = Lookup(metadata, "n_members_datacollection")
                  + Lookup(metadata, "n_members_dataset")

\* an update after an earlier update counted more members than there are now
C8_Witness ==
    /\ call.op = "update"
    /\ Lookup(call.pre, "n_members") > Lookup(metadata, "n_members")
    /\ Lookup(metadata, "n_members_datacollection") >= 1
    /\ Lookup(metadata, "n_members_dataset") >= 1

-----------------------------------------------------------------------------
(* MetadataProcess *)

\* the 'instantiated' line of __init__
InstantiatedLine(classname, name, user, t) ==
    classname \o <<" ","o","b","j","e","c","t"," ","n","a","m","e","d"," ","'">> \o name
        \o <<"'"," ","w","a","s"," ","i","n","s","t","a","n","t","i","a","t","e","d"," ">> \o <<" ","a","t"," ">>
        \o Strftime(t) \o <<" ","b","y"," ">> \o user \o <<".">>

\* the line update builds
EventLine(classname, name, t, event) ==
    <<"C","l","a","s","s"," ",":"," ">> \o classname
        \o <<"N","a","m","e"," ",":"," ">> \o name
        \o <<"D","a","t","e"," ",":"," ">> \o Strftime(t)
        \o <<"E","v","e","n","t"," ",":"," ">> \o event

MetadataProcess_init(e, name, user, t) ==
    LET m0 == AbstractMetadata_init
        m1 == SetItem(m0, "log", <<>>)
        msg == InstantiatedLine(ClassName(e), name, user, t)
    IN  SetItem(m1, "log", Append(Lookup(m1, "log"), msg))

\* msg is built before `if event:` is tested: reading self._name raises
\* AttributeError when the attribute is not bound, and str + None raises
\* TypeError
MetadataProcess_update(md, at, e, t, event) ==
    IF "_name" \notin DOMAIN at
    THEN Result("AttributeError", None, md)
    ELSE IF event = None
    THEN Result("TypeError", None, md)
    ELSE LET msg == EventLine(ClassName(e), at["_name"], t, event) IN
         IF TruthyStr(event)
         THEN Result("ok", None, SetItem(md, "log", Append(Lookup(md, "log"), msg)))
         ELSE Result("ok", None, md)

-----------------------------------------------------------------------------
(* A Process record, as a builder's create_process makes it, under update *)

Events == {None, <<>>, <<"s","a","v","e","d">>, <<"r","e","a","d">>}

InitProcess ==
    /\ entity \in {[cls |-> DataSet, members |-> <<>>],
                   [cls |-> DataCollection, members |-> <<>>]}
    /\ attrs = WithType(AbstractMetadata_attrs, Process)
    /\ now = 1
    /\ \E name \in Names, user \in Users :
          metadata = MetadataProcess_init(entity, name, user, now)
    /\ built = metadata
    /\ nextId = 1
    /\ TaxonomyIdle /\ BuilderIdle
    /\ call = NoCall

ProcessUpdate ==
    \E event \in Events :
        LET r == MetadataProcess_update(metadata, attrs, entity, now, event) IN
        /\ Len(Lookup(metadata, "log")) <= MaxUpdates
        /\ metadata' = r.md
        /\ call' = [op |-> "update", event |-> event, outcome |-> r.outcome,
                    pre |-> Lookup(metadata, "log")]
        /\ UNCHANGED <<attrs, entity, now, built>>
        /\ RecordFrame

\* get('log'), get() and get of a key the record does not hold
ProcessGet ==
    \E key \in {"log", "name", NoKey} :
        LET r == AbstractMetadata_get(metadata, key) IN
        /\ metadata' = r.md
        /\ call' = [op |-> "get", key |-> key, outcome |-> r.outcome,
                    ret |-> r.ret]
        /\ UNCHANGED <<attrs, entity, now, built>>
        /\ RecordFrame

NextProcess == Tick \/ ProcessUpdate \/ ProcessGet

SpecProcess == InitProcess /\ [][NextProcess]_vars

\* the line holds 'instantiated'
IsInstantiatedLine(line) == Contains(line, <<"i","n","s","t","a","n","t","i","a","t","e","d">>)

\* C9: the log of a Process record built by a builder starts as exactly one
\* 'instantiated' line, and each update(event) with a non-empty event
\* returns without error and appends exactly one line to the end of the log,
\* the lines already present staying as they were and in their order.
C9_UpdateAppends ==
    /\ call.op = "none" =>
          /\ Len(Lookup(metadata, "log")) = 1
          /\ IsInstantiatedLine(Lookup(metadata, "log")[1])
    /\ (call.op = "update" /\ TruthyStr(call.event)) =>
          /\ call.outcome = "ok"
          /\ Len(Lookup(metadata, "log")) = Len(call.pre) + 1
          /\ SubSeq(Lookup(metadata, "log"), 1, Len(call.pre)) = call.pre

\* C10: update with a falsy event (None or the empty string) is a no-op: it
\* returns without raising and the log is as before the call.
C10_FalsyEventNoOp ==
    (call.op = "update" /\ ~TruthyStr(call.event)) =>
        /\ call.outcome = "ok"
        /\ Lookup(metadata, "log") = call.pre

-----------------------------------------------------------------------------
(* The taxonomy: one record per kind *)

\* C13: add stores the record under its lower-cased kind name and replaces
\* any record of that kind without error, so the taxonomy holds at most one
\* record per kind (at most four) and lookup of a kind returns the record
\* of that kind added last: the record just added is what lookup of its
\* kind returns, and the records of the other kinds stay as they were.
C13_OnePerKind ==
    /\ Len(taxonomy) <= 4
    /\ \A i, j \in DOMAIN taxonomy :
          /\ taxonomy[i].k = Lower(taxonomy[i].v.metadata_type)
          /\ (i # j => taxonomy[i].v.metadata_type # taxonomy[j].v.metadata_type)
    /\ call.op = "add" =>
          /\ call.outcome = "ok"
          /\ Has(taxonomy, Lower(call.arg.metadata_type))
          /\ Lookup(taxonomy, Lower(call.arg.metadata_type)) = call.arg
          /\ Metadata_get(taxonomy, call.arg.metadata_type).outcome = "ok"
          /\ Metadata_get(taxonomy, call.arg.metadata_type).ret = call.arg
          /\ \A i \in DOMAIN call.pre :
                call.pre[i].k # Lower(call.arg.metadata_type) =>
                    /\ Has(taxonomy, call.pre[i].k)
                    /\ Lookup(taxonomy, call.pre[i].k) = call.pre[i].v

\* a record replaced an earlier record of its kind in a full taxonomy
C13_Witness ==
    /\ call.op = "add"
    /\ Len(call.pre) = 4
    /\ Has(call.pre, Lower(call.arg.metadata_type))
    /\ Lookup(call.pre, Lower(call.arg.metadata_type)) # call.arg
    /\ Len(taxonomy) = 4

-----------------------------------------------------------------------------
(* The Administrative record's update counter *)

\* C16: updates is 0 after construction and each update adds exactly one to
\* it.
C16_UpdatesCounter ==
    /\ Lookup(built, "updates") = 0
    /\ call.op = "none" => Lookup(metadata, "updates") = 0
    /\ call.op = "update" =>
          /\ call.outcome = "ok"
          /\ Lookup(metadata, "updates") = call.pre + 1

-----------------------------------------------------------------------------
(* Ambient facts: the host and its memory *)

\* platform.uname() of the host
Uname ==
    [system |-> <<"L","i","n","u","x">>, node |-> <<"w","s","1">>,
     release |-> <<"6",".","1">>, version |-> <<"#","1"," ","S","M","P">>,
     machine |-> <<"x","8","6","_","6","4">>, processor |-> <<>>]

\* psutil.cpu_count(logical)
CpuCount(logical) == IF logical THEN 4 ELSE 2

\* psutil.virtual_memory() at tick t: the memory in use changes with time
TotalMemory == 8
Svmem(t) ==
    LET used == IF t < TotalMemory THEN t ELSE TotalMemory IN
    [total |-> TotalMemory, available |-> TotalMemory - used, used |-> used,
     percent |-> (used * 100) \div TotalMemory]

\* utils.format.scale_number: the number, scaled to a unit, as text
ScaleNumber(n, unit) == Str(n) \o unit

\* sys.getsizeof(entity): the shallow size of the instance
ObjectSize == 48
GetSizeOf(e) == ObjectSize

\* os.path.getsize(path) of a file that exists
FileSize == 3

-----------------------------------------------------------------------------
(* Keyword bundles given to record constructors: dicts of str to str *)

Entry(key, value) == [k |-> key, v |-> value]

KwargsBundles ==
    { <<>>,
      <<Entry("database", <<"d","b">>), Entry("port", <<"5">>)>>,
      <<Entry("host", <<"h">>), Entry("user", <<"u">>),
        Entry("password", <<"p">>), Entry("database", <<"d","b">>),
        Entry("port", <<"5">>)>>,
      <<Entry("user", <<"u">>), Entry("version", <<"9">>),
        Entry("url", <<"h","t","t","p",":","/","/","x">>)>>,
      <<Entry("path", <<"d","/","f",".","c","s","v">>)>>,
      <<Entry("path", <<"/","a",".","b","/",".","r","c">>), Entry("base_url", <<"x",".","o","r","g">>)>>,
      <<Entry("path", <<"f">>)>>,
      <<Entry("path", <<>>), Entry("url", <<"h","t","t","p",":","/","/","x">>)>> }

\* kwargs.get(key, None)
KwGet(kwargs, key) == IF Has(kwargs, key) THEN Lookup(kwargs, key) ELSE None

\* dict.update(other): each item of other assigned in turn
RECURSIVE DictUpdate(_, _)
DictUpdate(md, other) ==
    IF other = <<>> THEN md
    ELSE DictUpdate(SetItem(md, Head(other).k, Head(other).v), Tail(other))

-----------------------------------------------------------------------------
(* MetadataTech and its specializations *)

\* _format_metadata: the host snapshot at tick t
MetadataTech_format_metadata(md, e, t) ==
    LET svmem == Svmem(t)
        m1  == SetItem(md, "system", Uname.system)
        m2  == SetItem(m1, "node", Uname.node)
        m3  == SetItem(m2, "release", Uname.release)
        m4  == SetItem(m3, "version", Uname.version)
        m5  == SetItem(m4, "machine", Uname.machine)
        m6  == SetItem(m5, "processor", Uname.processor)
        m7  == SetItem(m6, "release", Uname.release)
        m8  == SetItem(m7, "physical_cores", CpuCount(FALSE))
        m9  == SetItem(m8, "total_cores", CpuCount(TRUE))
        m10 == SetItem(m9, "total_memory", ScaleNumber(svmem.total, <<>>))
        m11 == SetItem(m10, "available_memory", ScaleNumber(svmem.available, <<>>))
        m12 == SetItem(m11, "used_memory", ScaleNumber(svmem.used, <<>>))
        m13 == SetItem(m12, "pct_memory_used", svmem.percent)
    IN  SetItem(m13, "object_size", GetSizeOf(e))

MetadataTech_init(e, t) ==
    Result("ok", None, MetadataTech_format_metadata(AbstractMetadata_init, e, t))

\* the store as _format_metadata has left it when super().update() raises
MetadataTech_update_metadata(md, e, t) ==
    LET m1 == MetadataTech_format_metadata(md, e, t)
        b  == AbstractMetadata_update(m1)
    IN  b

MetadataTechFile_init(e, t, kwargs, file_exists) ==
    LET base == MetadataTech_init(e, t)
        path == KwGet(kwargs, "path")
    IN  IF TruthyStr(path)
        THEN IF file_exists
             THEN Result("ok", None,
                         SetItem(base.md, "file_size", ScaleNumber(FileSize, <<"M">>)))
             ELSE Result("FileNotFoundError", None, base.md)
        ELSE base

RdbmsParams == {"database", "user", "password", "host", "port"}

MetadataTechRDBMS_init_unfiltered(e, t, kwargs) ==
    Result("ok", None, DictUpdate(MetadataTech_init(e, t).md, kwargs))

MetadataTechRDBMS_init(e, t, kwargs) ==
    LET rdbms_params == SelectSeq(kwargs, LAMBDA item : item.k \in RdbmsParams)
    IN  Result("ok", None, DictUpdate(MetadataTech_init(e, t).md, rdbms_params))

-----------------------------------------------------------------------------
(* Specification SpecTech: Technical records are constructed and refreshed *)

TechClasses == {"MetadataTech", "MetadataTechFile", "MetadataTechRDBMS"}

\* cls(entity, name, **kwargs) at tick t
MetadataTech_new(cls, e, t, kwargs, file_exists) ==
    IF cls = "MetadataTechFile" THEN MetadataTechFile_init(e, t, kwargs, file_exists)
    ELSE IF cls = "MetadataTechRDBMS" THEN MetadataTechRDBMS_init(e, t, kwargs)
    ELSE MetadataTech_init(e, t)

\* the keys _format_metadata assigns
SnapshotKeys ==
    {"system", "node", "release", "version", "machine", "processor",
     "physical_cores", "total_cores", "total_memory", "available_memory",
     "used_memory", "pct_memory_used", "object_size"}

InitTech ==
    /\ entity \in {[cls |-> DataSet, members |-> <<>>],
                   [cls |-> DataCollection, members |-> <<>>]}
    /\ metadata = <<>> /\ attrs = <<>> /\ built = <<>>
    /\ now = 1
    /\ nextId = 1
    /\ TaxonomyIdle /\ BuilderIdle
    /\ call = NoCall

\* a record is constructed; if the constructor raises there is no record
TechConstruct ==
    \E cls \in TechClasses, kwargs \in KwargsBundles, file_exists \in BOOLEAN :
        LET r == MetadataTech_new(cls, entity, now, kwargs, file_exists) IN
        /\ metadata' = IF r.outcome = "ok" THEN r.md ELSE <<>>
        /\ built' = metadata'
        /\ attrs' = WithType(AbstractMetadata_attrs, Technical)
        /\ call' = [op |-> "construct", cls |-> cls, kwargs |-> kwargs,
                    t |-> now, outcome |-> r.outcome]
        /\ UNCHANGED <<entity, now>>
        /\ RecordFrame

TechUpdateMetadata ==
    LET r == MetadataTech_update_metadata(metadata, entity, now) IN
    /\ metadata # <<>>
    /\ metadata' = r.md
    /\ call' = [op |-> "update_metadata", t |-> now, outcome |-> r.outcome,
                pre |-> metadata]
    /\ UNCHANGED <<attrs, entity, now, built>>
    /\ RecordFrame

NextTech == Tick \/ TechConstruct \/ TechUpdateMetadata

SpecTech == InitTech /\ [][NextTech]_vars

\* the store holds, under every snapshot key, what the host reported at tick t
SnapshotAt(md, e, t) ==
    \A key \in SnapshotKeys :
        /\ Has(md, key)
        /\ Lookup(md, key) = Lookup(MetadataTech_init(e, t).md, key)

\* C12: an RDBMS Technical record constructed with a keyword bundle holds the
\* host snapshot fields and, of database, user, password, host and port,
\* exactly the supplied ones, each with its supplied value; a key that was not
\* supplied is absent and every other keyword is ignored.
C12_RdbmsParams ==
    (call.op = "construct" /\ call.cls = "MetadataTechRDBMS") =>
        /\ call.outcome = "ok"
        /\ KeysOf(metadata) = SnapshotKeys \cup (KeysOf(call.kwargs) \cap RdbmsParams)
        /\ SnapshotAt(metadata, entity, call.t)
        /\ \A key \in RdbmsParams :
              Has(call.kwargs, key) =>
                  Lookup(metadata, key) = Lookup(call.kwargs, key)

\* an RDBMS record built from a bundle with a recognised key, a missing
\* recognised key and keys that are not recognised
C12_Witness ==
    /\ call.op = "construct" /\ call.cls = "MetadataTechRDBMS"
    /\ call.outcome = "ok"
    /\ Has(call.kwargs, "user") /\ Has(metadata, "user")
    /\ ~Has(call.kwargs, "port") /\ ~Has(metadata, "port")
    /\ Has(call.kwargs, "url") /\ Has(call.kwargs, "version")

\* C15: on a Technical record produced by construction, update_metadata
\* completes without error, captures every host snapshot field anew,
\* increments the number of updates by one and leaves the fields a
\* specialization added as they were.
C15_UpdateMetadata ==
    call.op = "update_metadata" =>
        /\ call.outcome = "ok"
        /\ SnapshotAt(metadata, entity, call.t)
        /\ Has(metadata, "updates")
        /\ \A i \in DOMAIN call.pre :
              call.pre[i].k \notin SnapshotKeys \cup {"updates"} =>
                  /\ Has(metadata, call.pre[i].k)
                  /\ Lookup(metadata, call.pre[i].k) = call.pre[i].v

-----------------------------------------------------------------------------
(* Paths, as posixpath treats them *)

\* str.rfind(c) + 1: the position of the last c in s, 0 if there is none
RFind(s, c) ==
    IF \E i \in DOMAIN s : s[i] = c
    THEN Max({i \in DOMAIN s : s[i] = c})
    ELSE 0

RECURSIVE RStrip(_, _)
RStrip(s, c) ==
    IF s # <<>> /\ s[Len(s)] = c THEN RStrip(SubSeq(s, 1, Len(s) - 1), c) ELSE s

\* os.path.dirname
Dirname(p) ==
    LET head == SubSeq(p, 1, RFind(p, "/")) IN
    IF head # <<>> /\ (\E i \in DOMAIN head : head[i] # "/")
    THEN RStrip(head, "/")
    ELSE head

\* os.path.basename
Basename(p) == SubSeq(p, RFind(p, "/") + 1, Len(p))

\* os.path.splitext(p)[1]
Splitext_ext(p) ==
    LET sepIndex == RFind(p, "/")
        dotIndex == RFind(p, ".")
    IN  IF /\ dotIndex > sepIndex
           /\ \E j \in (sepIndex + 1)..(dotIndex - 1) : p[j] # "."
        THEN SubSeq(p, dotIndex, Len(p))
        ELSE <<>>

\* the creation, access and modification times of a file that exists
FileTimes == [ctime |-> 1, atime |-> 2, mtime |-> 1]

\* time.strftime("%c", time.localtime(t))
StrftimeC(t) == <<"C">> \o Str(t)

-----------------------------------------------------------------------------
(* MetadataAdminFile and MetadataAdminURL *)

\* the text of a key, for the substring test on keys
KeyChars ==
    ("id" :> <<"i","d">>) @@
    ("name" :> <<"n","a","m","e">>) @@
    ("creator" :> <<"c","r","e","a","t","o","r">>) @@
    ("created" :> <<"c","r","e","a","t","e","d">>) @@
    ("modifier" :> <<"m","o","d","i","f","i","e","r">>) @@
    ("modified" :> <<"m","o","d","i","f","i","e","d">>) @@
    ("updates" :> <<"u","p","d","a","t","e","s">>) @@
    ("classname" :> <<"c","l","a","s","s","n","a","m","e">>) @@
    ("objectname" :> <<"o","b","j","e","c","t","n","a","m","e">>) @@
    ("database" :> <<"d","a","t","a","b","a","s","e">>) @@
    ("port" :> <<"p","o","r","t">>) @@
    ("host" :> <<"h","o","s","t">>) @@
    ("user" :> <<"u","s","e","r">>) @@
    ("password" :> <<"p","a","s","s","w","o","r","d">>) @@
    ("version" :> <<"v","e","r","s","i","o","n">>) @@
    ("url" :> <<"u","r","l">>) @@
    ("base_url" :> <<"b","a","s","e","_","u","r","l">>) @@
    ("path" :> <<"p","a","t","h">>)

MetadataAdminFile_init(e, name, user, t, uuid, kwargs, file_exists) ==
    LET base == MetadataAdmin_init(e, name, user, t, uuid)
        path == KwGet(kwargs, "path")
        m1 == SetItem(base, "path", path)
        m2 == SetItem(m1, "directory", Dirname(path))
        m3 == SetItem(m2, "filename", Basename(path))
        m4 == SetItem(m3, "fileext", Splitext_ext(path))
        m5 == SetItem(m4, "file_exists", file_exists)
        m6 == SetItem(m5, "file_created", StrftimeC(FileTimes.ctime))
        m7 == SetItem(m6, "file_last_accessed", StrftimeC(FileTimes.atime))
        m8 == SetItem(m7, "file_last_modified", StrftimeC(FileTimes.mtime))
    IN  IF TruthyStr(path)
        THEN IF file_exists
             THEN Result("ok", None, m8)
             ELSE Result("FileNotFoundError", None, m5)
        ELSE Result("ok", None, base)

\* the filter runs over the items of the store, whose keys hold no "url"
MetadataAdminURL_init(e, name, user, t, uuid, kwargs) ==
    LET base == MetadataAdmin_init(e, name, user, t, uuid)
        url  == SelectSeq(base,
                    LAMBDA item : Contains(KeyChars[item.k], <<"u","r","l">>))
    IN  Result("ok", None, DictUpdate(base, url))

-----------------------------------------------------------------------------
(* Specification SpecAdminVariants: Administrative records are constructed *)

AdminClasses == {"MetadataAdmin", "MetadataAdminFile", "MetadataAdminURL"}

\* cls(entity, name, **kwargs) by user at tick t
MetadataAdmin_new(cls, e, name, user, t, uuid, kwargs, file_exists) ==
    IF cls = "MetadataAdminFile"
    THEN MetadataAdminFile_init(e, name, user, t, uuid, kwargs, file_exists)
    ELSE IF cls = "MetadataAdminURL"
    THEN MetadataAdminURL_init(e, name, user, t, uuid, kwargs)
    ELSE Result("ok", None, MetadataAdmin_init(e, name, user, t, uuid))

\* the name given to a record, the user logged in and the uuid drawn for it
Identities ==
    {[name |-> <<"S","F">>, user |-> <<"J","o">>, uuid |-> <<"u","1">>],
     [name |-> <<"n","y","c">>, user |-> <<"a","l">>, uuid |-> <<"u","2">>]}

InitAdminVariants ==
    /\ entity \in {[cls |-> DataSet, members |-> <<>>],
                   [cls |-> DataCollection, members |-> <<>>]}
    /\ metadata = <<>> /\ attrs = <<>> /\ built = <<>>
    /\ now = 1
    /\ nextId = 1
    /\ TaxonomyIdle /\ BuilderIdle
    /\ call = NoCall

\* a record is constructed; if the constructor raises there is no record
AdminConstruct ==
    \E cls \in AdminClasses, kwargs \in KwargsBundles, file_exists \in BOOLEAN,
       who \in Identities :
        LET r == MetadataAdmin_new(cls, entity, who.name, who.user, now,
                                   who.uuid, kwargs, file_exists) IN
        /\ metadata' = IF r.outcome = "ok" THEN r.md ELSE <<>>
        /\ built' = metadata'
        /\ attrs' = WithType(AbstractMetadata_attrs, Administrative)
        /\ call' = [op |-> "construct", cls |-> cls, kwargs |-> kwargs,
                    file_exists |-> file_exists, outcome |-> r.outcome]
        /\ UNCHANGED <<entity, now>>
        /\ RecordFrame

NextAdminVariants == Tick \/ AdminConstruct

SpecAdminVariants == InitAdminVariants /\ [][NextAdminVariants]_vars

\* C11: a remote/URL Administrative record constructed with a keyword bundle
\* holds every keyword whose key contains "url", with the supplied value, and
\* holds no keyword whose key does not contain "url".
C11_UrlKeywords ==
    (call.op = "construct" /\ call.cls = "MetadataAdminURL") =>
        /\ call.outcome = "ok"
        /\ \A i \in DOMAIN call.kwargs :
              LET key == call.kwargs[i].k IN
              IF Contains(KeyChars[key], <<"u","r","l">>)
              THEN /\ Has(metadata, key)
                   /\ Lookup(metadata, key) = call.kwargs[i].v
              ELSE ~Has(metadata, key)

FileKeys ==
    {"path", "directory", "filename", "fileext", "file_exists",
     "file_created", "file_last_accessed", "file_last_modified"}

\* C14: a file-backed Administrative record constructed with a non-empty path
\* is built whether or not a file exists there; its path is the supplied
\* path, its directory, filename and fileext are the directory, base name and
\* extension of the path, and file_exists tells whether the filesystem has an
\* entry there.  Without a path none of the file fields is present.
C14_FileFields ==
    (call.op = "construct" /\ call.cls = "MetadataAdminFile") =>
        LET path == KwGet(call.kwargs, "path") IN
        IF TruthyStr(path)
        THEN /\ call.outcome = "ok"
             /\ Lookup(metadata, "path") = path
             /\ Lookup(metadata, "directory") = Dirname(path)
             /\ Lookup(metadata, "filename") = Basename(path)
             /\ Lookup(metadata, "fileext") = Splitext_ext(path)
             /\ Lookup(metadata, "file_exists") = call.file_exists
        ELSE /\ call.outcome = "ok"
             /\ KeysOf(metadata) \cap FileKeys = {}

-----------------------------------------------------------------------------
(* Specification SpecCopy: a caller works on the mapping that get() returned.
   dict.copy() is shallow: the copy has its own keys and bindings, and a value
   that is a list is the same object in the store and in the copy.  A list
   is an object on the heap and a mapping binds its key to a reference. *)

\* the keys whose value is a list object
ListKeys == {"log"}

\* the mapping with the reference to the list on the heap in place of the list
Refs(md) ==
    [i \in DOMAIN md |->
        IF md[i].k \in ListKeys THEN Entry(md[i].k, [ref |-> 1]) ELSE md[i]]

\* the list objects of a record just constructed
Lists(md) ==
    IF \E key \in ListKeys : Has(md, key) THEN <<Lookup(md, "log")>> ELSE <<>>

\* the mapping as a reader sees it, every reference followed
Deref(md, h) ==
    [i \in DOMAIN md |->
        IF md[i].k \in ListKeys THEN Entry(md[i].k, h[md[i].v.ref]) ELSE md[i]]

\* a record of the given kind, as its constructor leaves it
Record_new(kind, e, who, t) ==
    IF kind = Administrative
    THEN MetadataAdmin_init(e, who.name, who.user, t, who.uuid)
    ELSE IF kind = Descriptive THEN MetadataDesc_init(e)
    ELSE IF kind = Technical THEN MetadataTech_init(e, t).md
    ELSE MetadataProcess_init(e, who.name, who.user, t)

MaxCopies == 1
MaxAppends == 1

\* the keys the caller touches in a copy
CallerKeys == {"log", "tag"}

CopyFrame == UNCHANGED <<taxonomy, kindOrder, nextId, factory, created>>

InitCopy ==
    /\ entity \in {[cls |-> DataSet, members |-> <<>>],
                   [cls |-> DataCollection, members |-> <<>>]}
    /\ now = 1
    /\ \E kind \in Kinds, who \in Identities :
          /\ attrs = WithType(AbstractMetadata_attrs, kind)
          /\ built = Record_new(kind, entity, who, now)
    /\ metadata = Refs(built)
    /\ heap = Lists(built)
    /\ handed = <<>>
    /\ nextId = 1
    /\ TaxonomyIdle
    /\ factory = [cls |-> "none"] /\ created = <<>>
    /\ call = NoCall

\* get(): the caller is handed self._metadata.copy()
CopyGet ==
    LET r == AbstractMetadata_get(metadata, NoKey) IN
    /\ Len(handed) < MaxCopies
    /\ handed' = Append(handed, r.ret)
    /\ metadata' = r.md
    /\ call' = [op |-> "get", key |-> NoKey, outcome |-> r.outcome]
    /\ UNCHANGED <<attrs, entity, now, built, heap>>
    /\ CopyFrame

\* get(key) on the store
StoreGet ==
    \E key \in CallerKeys :
        LET r == AbstractMetadata_get(Deref(metadata, heap), key) IN
        /\ call' = [op |-> "get", key |-> key, outcome |-> r.outcome,
                    ret |-> r.ret]
        /\ UNCHANGED <<metadata, attrs, entity, now, built, heap, handed>>
        /\ CopyFrame

\* copy[key] = value: the caller adds or rebinds a key, to a new list or a str
CallerSet ==
    \E i \in DOMAIN handed, key \in CallerKeys :
        /\ IF key \in ListKeys
           THEN /\ Len(heap) <= MaxCopies
                /\ heap' = Append(heap, <<>>)
                /\ handed' = [handed EXCEPT
                                 ![i] = SetItem(@, key, [ref |-> Len(heap) + 1])]
           ELSE /\ heap' = heap
                /\ handed' = [handed EXCEPT ![i] = SetItem(@, key, <<"x">>)]
        /\ UNCHANGED <<metadata, attrs, entity, now, built, call>>
        /\ CopyFrame

\* del copy[key]
CallerDel ==
    \E i \in DOMAIN handed, key \in CallerKeys :
        /\ Has(handed[i], key)
        /\ handed' = [handed EXCEPT ![i] = DelItem(@, key)]
        /\ UNCHANGED <<metadata, attrs, entity, now, built, heap, call>>
        /\ CopyFrame

\* copy['log'].append(line): the caller mutates the list the copy refers to
CallerAppend ==
    \E i \in DOMAIN handed :
        /\ Has(handed[i], "log")
        /\ LET ref == Lookup(handed[i], "log").ref IN
              /\ Len(heap[ref]) <= MaxAppends
              /\ heap' = [heap EXCEPT ![ref] = Append(@, <<"x">>)]
        /\ UNCHANGED <<metadata, attrs, entity, now, built, handed, call>>
        /\ CopyFrame

NextCopy == CopyGet \/ StoreGet \/ CallerSet \/ CallerDel \/ CallerAppend

SpecCopy == InitCopy /\ [][NextCopy]_vars

\* C17: for every record kind the mapping get() returns is independent of the
\* store: whatever the caller does through it (adds, removes or rebinds a
\* key, mutates a contained value such as the log list), the store goes on
\* returning what it returned before.
C17_CopyIndependent ==
    /\ Deref(metadata, heap) = built
    /\ (call.op = "get" /\ call.key # NoKey) =>
          /\ call.outcome = AbstractMetadata_get(built, call.key).outcome
          /\ call.outcome = "ok" =>
                call.ret = AbstractMetadata_get(built, call.key).ret

====
